---- MODULE Spec2Model ----
(***************************************************************************)
(* Release validation (pkg/validate/validate.go): the runner CheckRelease, *)
(* the session object built by NewReleaseInfo, and the checks' helpers.    *)
(***************************************************************************)
EXTENDS Integers, Sequences, FiniteSets, Bags, TLC

(***************************************************************************)
(* Bounds of the model.                                                    *)
(***************************************************************************)
\* At most this many checks find a defective artefact in one release.
MaxDefects == 1

(***************************************************************************)
(* The check registry of CheckRelease.                                     *)
(***************************************************************************)
\* The keys of the map `checks`.
Checks ==
    {"IstioctlArchive", "IstioctlStandalone", "TestDocker", "HelmVersionsIstio",
     "HelmChartVersions", "IstioctlProfiles", "Manifest", "Licenses", "Grafana",
     "CompletionFiles", "ProxyVersion", "Debian", "Rpm"}

\* The checks that read below r.archive: they run the bundled binary or read
\* a file of the unpacked primary archive, and return an error when it is
\* not there.
ArchiveChecks ==
    {"IstioctlArchive", "HelmVersionsIstio", "IstioctlProfiles", "CompletionFiles"}

\* The checks that go through fileExists, which dereferences a nil FileInfo
\* when os.Stat fails with anything but "not exist".
StatChecks == {"Debian", "Rpm"}

(***************************************************************************)
(* The state. The slices `success` and `errors` are kept as bags: they are *)
(* appended to in the order of a map range, which Go leaves unspecified,   *)
(* so their order says nothing; how often each entry occurs is kept.       *)
(***************************************************************************)
VARIABLES
    release,     \* the argument of CheckRelease
    env,         \* what the host and the release directory hold (never changes)
    pc,          \* position of the run
    tmpDirs,     \* the scratch directories that exist under /tmp
    archiveDir,  \* the files below <tmpDir>/istio-<version>
    scratch,     \* the other entries of <tmpDir>
    r,           \* the ReleaseInfo
    pending,     \* the entries of `checks` the range loop has not visited
    calls,       \* bag: how often each check was called
    success,     \* bag of the names appended to `success`
    errors,      \* bag of the messages appended to `errors`
    commands,    \* bag of the external commands run (util.VerboseCommand)
    report,      \* the pieces written to the strings.Builder, in order
    args,        \* the arguments of the helper or check that is called alone
    ret          \* what that helper or check returned

vars == <<release, env, pc, tmpDirs, archiveDir, scratch, r, pending, calls,
          success, errors, commands, report, args, ret>>

\* No helper or check is called alone during a run of CheckRelease.
NoArgs == <<>>
NoRet == <<>>

\* model.Manifest, the fields read here.
Manifest(version, docker) == [Version |-> version, Docker |-> docker]

NoInfo == [tmpDir |-> "", manifest |-> Manifest("", ""), archive |-> "", release |-> ""]

\* The contents of the primary archive istio-<version>-linux-amd64.tar.gz.
PrimaryArchive == {"bin/istioctl", "manifests/profiles/default.yaml", "tools/_istioctl"}

\* The contents of the standalone archive istioctl-<version>-linux-amd64.tar.gz.
StandaloneArchive == {"istioctl"}

\* The defects a release can have: the checks whose artefact is wrong (the
\* check returns an error), and among the StatChecks those whose os.Stat
\* fails otherwise than by "not exist".
DefectSets == {D \in SUBSET Checks : Cardinality(D) <= MaxDefects}

Envs ==
    { [mkdirOk |-> m, manifestOk |-> f, tarOk |-> t, defects |-> D, statErr |-> S] :
        m \in BOOLEAN, f \in BOOLEAN, t \in BOOLEAN,
        D \in DefectSets, S \in SUBSET StatChecks }

\* A release as CheckRelease can be handed one: a defective stat is a defect.
EnvOk(e) == e.statErr \subseteq e.defects

Init ==
    /\ release \in {"", "rel"}
    /\ env \in {e \in Envs : EnvOk(e)}
    /\ pc = "entry"
    /\ tmpDirs = {}
    /\ archiveDir = {}
    /\ scratch = {}
    /\ r = NoInfo
    /\ pending = {}
    /\ calls = EmptyBag
    /\ success = EmptyBag
    /\ errors = EmptyBag
    /\ commands = EmptyBag
    /\ report = <<>>
    /\ args = NoArgs
    /\ ret = NoRet

(***************************************************************************)
(* NewReleaseInfo.                                                         *)
(***************************************************************************)
\* os.MkdirTemp fails: panic(err).
NewReleaseInfoMkdirPanics ==
    /\ pc = "entry" /\ release # ""
    /\ ~env.mkdirOk
    /\ pc' = "panicked"
    /\ UNCHANGED <<release, env, scratch, tmpDirs, archiveDir, r, pending,
                   calls, success, errors, commands, report, args, ret>>

\* pkg.ReadManifest fails: panic(err); the scratch directory was made.
NewReleaseInfoManifestPanics ==
    /\ pc = "entry" /\ release # ""
    /\ env.mkdirOk /\ ~env.manifestOk
    /\ tmpDirs' = tmpDirs \cup {"tmp"}
    /\ pc' = "panicked"
    /\ UNCHANGED <<release, env, scratch, archiveDir, r, pending, calls,
                   success, errors, commands, report, args, ret>>

\* NewReleaseInfo without the extraction of the primary archive.
NewReleaseInfoNoExtract ==
    /\ pc = "entry" /\ release # ""
    /\ env.mkdirOk /\ env.manifestOk
    /\ tmpDirs' = tmpDirs \cup {"tmp"}
    /\ r' = [tmpDir |-> "tmp", manifest |-> Manifest("1.2.3", "docker.io/istio"),
             archive |-> "tmp/istio", release |-> release]
    /\ pending' = Checks
    /\ pc' = "checks"
    /\ UNCHANGED <<release, env, scratch, archiveDir, calls, success, errors,
                   commands, report, args, ret>>

\* The scratch directory is made, the manifest read, tar run: its failure is
\* logged and the ReleaseInfo returned all the same.
NewReleaseInfo ==
    /\ pc = "entry" /\ release # ""
    /\ env.mkdirOk /\ env.manifestOk
    /\ tmpDirs' = tmpDirs \cup {"tmp"}
    /\ archiveDir' = IF env.tarOk THEN PrimaryArchive ELSE {}
    /\ r' = [tmpDir |-> "tmp", manifest |-> Manifest("1.2.3", "docker.io/istio"),
             archive |-> "tmp/istio", release |-> release]
    /\ pending' = Checks
    /\ commands' = commands (+) SetToBag({<<"tar", "istio-linux-amd64.tar.gz">>})
    /\ pc' = "checks"
    /\ UNCHANGED <<release, env, scratch, calls, success, errors, report, args,
                   ret>>

(***************************************************************************)
(* CheckRelease.                                                           *)
(***************************************************************************)
\* if release == "" { return nil, "", []error{"--release must be passed"} }
CheckReleaseNoRelease ==
    /\ pc = "entry" /\ release = ""
    /\ errors' = SetToBag({<<"--release must be passed">>})
    /\ pc' = "returned"
    /\ UNCHANGED <<release, env, scratch, tmpDirs, archiveDir, r, pending,
                   calls, success, commands, report, args, ret>>

\* What check(r) does: "ok" (nil), "err" (an error), "panic".
CheckOutcome(name) ==
    IF name \in env.statErr THEN "panic"
    ELSE IF name \in env.defects THEN "err"
    ELSE IF name \in ArchiveChecks /\ archiveDir = {} THEN "err"
    ELSE "ok"

\* The directory the standalone archive would be unpacked into, were it
\* r.archive.
ExtractionDirArchive(rr) == rr.archive

\* tar xvf <release>/istioctl-<version>-linux-amd64.tar.gz -C r.tmpDir
ExtractionDir(rr) == rr.tmpDir

StandaloneTarCommand == <<"tar", "istioctl-linux-amd64.tar.gz">>

\* What check(r) writes. TestIstioctlStandalone runs tar, which unpacks the
\* standalone archive into its directory; in a release whose standalone
\* artefact is defective tar may have failed and unpacked nothing. No other
\* check writes a file.
CheckWrites(name) ==
    IF name = "IstioctlStandalone"
    THEN /\ commands' = commands (+) SetToBag({StandaloneTarCommand})
         /\ \E unpacked \in (IF name \in env.defects THEN BOOLEAN ELSE {TRUE}) :
              /\ scratch' = IF unpacked /\ ExtractionDir(r) = r.tmpDir
                            THEN scratch \cup StandaloneArchive ELSE scratch
              /\ archiveDir' = IF unpacked /\ ExtractionDir(r) = r.archive
                               THEN archiveDir \cup StandaloneArchive ELSE archiveDir
    ELSE UNCHANGED <<scratch, archiveDir, commands>>

\* RunCheck with a loop that ends at the first failing check.
RunCheckBreaksOnError(name) ==
    /\ pc = "checks"
    /\ name \in pending
    /\ calls' = calls (+) SetToBag({name})
    /\ CASE CheckOutcome(name) = "ok" ->
              /\ success' = success (+) SetToBag({name})
              /\ pending' = pending \ {name}
              /\ UNCHANGED <<errors, pc>>
         [] CheckOutcome(name) = "err" ->
              /\ errors' = errors (+) SetToBag({<<"check failed", name>>})
              /\ pending' = {}
              /\ UNCHANGED <<success, pc>>
         [] OTHER ->
              /\ pc' = "panicked"
              /\ pending' = pending \ {name}
              /\ UNCHANGED <<success, errors>>
    /\ CheckWrites(name)
    /\ UNCHANGED <<release, env, tmpDirs, r, report, args, ret>>

\* One iteration of `for name, check := range checks`: the order of a map
\* range is unspecified, so any unvisited entry may come next.
RunCheck(name) ==
    /\ pc = "checks"
    /\ name \in pending
    /\ calls' = calls (+) SetToBag({name})
    /\ pending' = pending \ {name}
    /\ CASE CheckOutcome(name) = "ok" ->
              /\ success' = success (+) SetToBag({name})
              /\ UNCHANGED <<errors, pc>>
         [] CheckOutcome(name) = "err" ->
              /\ errors' = errors (+) SetToBag({<<"check failed", name>>})
              /\ UNCHANGED <<success, pc>>
         [] OTHER ->
              /\ pc' = "panicked"
              /\ UNCHANGED <<success, errors>>
    /\ CheckWrites(name)
    /\ UNCHANGED <<release, env, tmpDirs, r, report, args, ret>>

\* The files of a tree in the lexical order filepath.Walk visits them in.
WalkOrder ==
    <<"bin/istioctl", "manifest.yaml", "manifests/profiles/default.yaml",
      "tools/_istioctl">>

\* filepath.Walk with the callback of the report: one "- <path>\n" piece for
\* the root and for each file below it. A root that does not exist hands the
\* callback an error, which it returns: nothing is written.
Walk(root, files) ==
    IF files = {} THEN <<>>
    ELSE <<<<"- ", root>>>>
         \o [i \in 1..Len(SelectSeq(WalkOrder, LAMBDA f : f \in files)) |->
               <<"- ", root, SelectSeq(WalkOrder, LAMBDA f : f \in files)[i]>>]

\* BuildReport without the test of len(errors).
BuildReportAlways ==
    <<<<"Checks failed. Release info: ", r>>, <<"Files in release: \n">>>>
    \o Walk(r.release, {"manifest.yaml"})
    \o <<<<"\nFiles in archive: \n">>>>
    \o Walk(r.archive, archiveDir)

\* After the loop: the report is built when len(errors) > 0.
BuildReport ==
    IF BagCardinality(errors) > 0
    THEN <<<<"Checks failed. Release info: ", r>>, <<"Files in release: \n">>>>
         \o Walk(r.release, {"manifest.yaml"})
         \o <<<<"\nFiles in archive: \n">>>>
         \o Walk(r.archive, archiveDir)
    ELSE <<>>

\* return success, sb.String(), errors
CheckReleaseReturn ==
    /\ pc = "checks"
    /\ pending = {}
    /\ report' = BuildReport
    /\ pc' = "returned"
    /\ UNCHANGED <<release, env, scratch, tmpDirs, archiveDir, r, pending,
                   calls, success, errors, commands, args, ret>>

Next ==
    \/ CheckReleaseNoRelease
    \/ NewReleaseInfoMkdirPanics
    \/ NewReleaseInfoManifestPanics
    \/ NewReleaseInfo
    \/ \E name \in Checks : RunCheck(name)
    \/ CheckReleaseReturn

Spec == Init /\ [][Next]_vars

(***************************************************************************)
(* The runner's properties.                                                *)
(***************************************************************************)
\* The checks that return an error in this release.
FailingChecks == {c \in Checks : CheckOutcome(c) = "err"}

TarCommand == <<"tar", "istio-linux-amd64.tar.gz">>

\* C1: when CheckRelease returns for a non-empty release path, every
\* registered check was called exactly once, whatever the order; with K
\* checks returning an error, `success` holds the N-K names of the others
\* and `errors` holds K messages, one for each failing check.
C1_AllChecksRunOnce ==
    (pc = "returned" /\ release # "") =>
        LET N == Cardinality(Checks)
            K == Cardinality(FailingChecks)
        IN /\ \A c \in Checks : CopiesIn(c, calls) = 1
           /\ BagCardinality(success) = N - K
           /\ BagCardinality(errors) = K
           /\ BagToSet(success) = Checks \ FailingChecks
           /\ BagToSet(errors) = {<<"check failed", c>> : c \in FailingChecks}

\* A run that returned with several failures and some successes.
C1_Witness ==
    /\ pc = "returned" /\ release # ""
    /\ BagCardinality(errors) >= 2
    /\ BagCardinality(success) >= 1

\* C2 as stated: for every call, the report is non-empty exactly when the
\* failure list is non-empty.
C2_ReportIffFailures ==
    pc = "returned" => (report # <<>> <=> BagCardinality(errors) > 0)

\* C2 amended: for a non-empty release path the report is non-empty exactly
\* when the failure list is, and it then starts with the header and holds the
\* two listing headings; the call with the empty release path returns one
\* failure and the empty report.
C2_ReportIffFailuresWithRelease ==
    pc = "returned" =>
        IF release = ""
        THEN BagCardinality(errors) = 1 /\ report = <<>>
        ELSE /\ report # <<>> <=> BagCardinality(errors) > 0
             /\ report # <<>> =>
                   /\ report[1] = <<"Checks failed. Release info: ", r>>
                   /\ report[2] = <<"Files in release: \n">>
                   /\ \E i \in 3..Len(report) : report[i] = <<"\nFiles in archive: \n">>

\* A run over a release that returned failures and a report listing the
\* unpacked archive.
C2_Witness ==
    /\ pc = "returned" /\ release # ""
    /\ BagCardinality(errors) > 0
    /\ Len(report) > 5

\* C3 as stated: no failure met during a run aborts it before the lists are
\* returned.
C3_RunNeverAborts == pc # "panicked"

C5_ScratchRemovedOnReturn ==
    (pc = "returned" /\ r # NoInfo) => r.tmpDir \notin tmpDirs

\* What a check returns on this release, told from the release alone: it
\* panics on a stat failure, fails on a defective artefact, and a check
\* that reads the unpacked primary archive fails when the archive of the
\* release could not be unpacked.
ReleaseOutcome(c) ==
    IF c \in env.statErr THEN "panic"
    ELSE IF c \in env.defects \/ (c \in ArchiveChecks /\ ~env.tarOk) THEN "err"
    ELSE "ok"

\* The checks the loop has called so far.
Called == {c \in Checks : CopiesIn(c, calls) > 0}

\* C15: in every order the loop may take, a check that was called has
\* succeeded exactly when the release lets it succeed and has failed exactly
\* when the release makes it fail, whichever checks were called before it;
\* the ReleaseInfo stays the one NewReleaseInfo returned, and the unpacked
\* primary archive stays as NewReleaseInfo left it: TestIstioctlStandalone
\* unpacks the standalone archive beside it, into the scratch directory.
C15_OutcomeIndependentOfOrder ==
    r # NoInfo =>
        /\ \A c \in Called :
              /\ c \in BagToSet(success) <=> ReleaseOutcome(c) = "ok"
              /\ <<"check failed", c>> \in BagToSet(errors) <=> ReleaseOutcome(c) = "err"
        /\ r = [tmpDir |-> "tmp", manifest |-> Manifest("1.2.3", "docker.io/istio"),
                archive |-> "tmp/istio", release |-> release]
        /\ archiveDir = IF env.tarOk THEN PrimaryArchive ELSE {}
        /\ scratch \subseteq StandaloneArchive

\* TestIstioctlStandalone has unpacked the standalone archive while checks
\* that read the primary archive were still to be called, after another of
\* them had been called and had failed on the archive that is not there.
C15_Witness ==
    /\ pc = "checks"
    /\ ~env.tarOk
    /\ scratch = StandaloneArchive
    /\ CopiesIn(StandaloneTarCommand, commands) = 1
    /\ <<"check failed", "IstioctlArchive">> \in BagToSet(errors)
    /\ "CompletionFiles" \in pending



(***************************************************************************)
(* GenericMap: the untyped documents and GenericMap.Path.                  *)
(* A Go string used as a key or a path segment is the sequence of its      *)
(* characters; a value is a record [t, v] with its dynamic type in t.      *)
(***************************************************************************)
\* Bounds of the documents and paths that are resolved.
MaxListLen == 2
MaxPathLen == 3

Str(s) == [t |-> "string", v |-> s]
Num(n) == [t |-> "float64", v |-> n]
Map(m) == [t |-> "map", v |-> m]
List(l) == [t |-> "list", v |-> l]
\* The nil interface: what a map lookup of an absent key yields, and a YAML
\* null.
Nil == [t |-> "nil", v |-> <<>>]

\* var tmpList []interface{}: nil until a list has been met.
NilList == [isNil |-> TRUE, l |-> <<>>]
NoErr == [type |-> "nil"]

A == <<"a">>
B == <<"b">>
TAG == <<"t", "a", "g">>
HUB == <<"h", "u", "b">>

Digits == {"0", "1", "2", "3", "4", "5", "6", "7", "8", "9"}

DigitVal(c) ==
    CASE c = "0" -> 0 [] c = "1" -> 1 [] c = "2" -> 2 [] c = "3" -> 3
      [] c = "4" -> 4 [] c = "5" -> 5 [] c = "6" -> 6 [] c = "7" -> 7
      [] c = "8" -> 8 [] c = "9" -> 9

RECURSIVE DecimalValue(_)
DecimalValue(ds) ==
    IF ds = <<>> THEN 0
    ELSE 10 * DecimalValue(SubSeq(ds, 1, Len(ds) - 1)) + DigitVal(ds[Len(ds)])

\* strconv.Atoi: an optional sign, then one or more decimal digits.
Atoi(p) ==
    LET signed == p # <<>> /\ p[1] \in {"+", "-"}
        ds == IF signed THEN Tail(p) ELSE p
    IN IF ds = <<>> \/ \E i \in 1..Len(ds) : ds[i] \notin Digits
       THEN [ok |-> FALSE, i |-> 0]
       ELSE [ok |-> TRUE,
             i |-> IF signed /\ p[1] = "-" THEN 0 - DecimalValue(ds)
                   ELSE DecimalValue(ds)]

\* val := current[p]
KeyLookup(current, p) == IF p \in DOMAIN current THEN current[p] ELSE Nil

\* tmpList[i] with a one-based index.
ListIndexOneBased(l, i) == l[IF i = 0 THEN Len(l) ELSE i]

\* tmpList[i], for an index the bounds check lets through.
ListIndex(l, i) == l[i + 1]

\* The type switch with the nil interface taken for a mapping.
TypeSwitchNilAsMap(val) ==
    CASE val.t = "string" -> "string"
      [] val.t = "map" -> "map"
      [] val.t = "nil" -> "map"
      [] val.t = "list" -> "list"
      [] OTHER -> "default"

\* switch v := val.(type)
TypeSwitch(val) ==
    CASE val.t = "string" -> "string"
      [] val.t = "map" -> "map"
      [] val.t = "list" -> "list"
      [] OTHER -> "default"

\* The unexpected-type error naming the segment after the one being resolved.
UnexpectedTypeNextSegment(val, path, k) ==
    [type |-> "UnexpectedType", got |-> val.t,
     seg |-> path[IF k < Len(path) THEN k + 1 ELSE k], path |-> path]

\* fmt.Errorf("expected map or string, got %T for %v in %v", v, p, path)
UnexpectedType(val, path, k) ==
    [type |-> "UnexpectedType", got |-> val.t, seg |-> path[k], path |-> path]

\* fmt.Errorf("list requires integer path: %v in %v", p, path)
InvalidPath(path, k) ==
    [type |-> "InvalidPath", got |-> "", seg |-> path[k], path |-> path]

Returns(val, err) == [val |-> val, err |-> err, panic |-> FALSE]
\* An index out of range: the goroutine panics, Path returns nothing.
Panics == [val |-> Nil, err |-> NoErr, panic |-> TRUE]

\* The loop of Path, had it gone on past a string that is not at the last
\* segment.
RECURSIVE PathLoopToEnd(_, _, _, _)
PathLoopToEnd(current, tmpList, path, k) ==
    IF k > Len(path) THEN Returns(Nil, NoErr)
    ELSE
      LET p == path[k]
          keyed == KeyLookup(current, p)
          at == Atoi(p)
      IN IF ~tmpList.isNil /\ ~at.ok THEN Returns(Nil, InvalidPath(path, k))
         ELSE IF ~tmpList.isNil /\ (at.i < 0 \/ at.i >= Len(tmpList.l)) THEN Panics
         ELSE
           LET val == IF tmpList.isNil THEN keyed ELSE ListIndex(tmpList.l, at.i)
           IN CASE TypeSwitch(val) = "string" ->
                       IF k = Len(path) THEN Returns(val, NoErr)
                       ELSE PathLoopToEnd(current, NilList, path, k + 1)
                [] TypeSwitch(val) = "map" -> PathLoopToEnd(val.v, NilList, path, k + 1)
                [] TypeSwitch(val) = "list" ->
                       PathLoopToEnd(current, [isNil |-> FALSE, l |-> val.v], path, k + 1)
                [] OTHER -> Returns(Nil, UnexpectedType(val, path, k))

\* The loop of Path from segment k on, with the loop's variables.
RECURSIVE PathLoop(_, _, _, _)
PathLoop(current, tmpList, path, k) ==
    IF k > Len(path) THEN Returns(Nil, NoErr)
    ELSE
      LET p == path[k]
          keyed == KeyLookup(current, p)
          at == Atoi(p)
      IN IF ~tmpList.isNil /\ ~at.ok THEN Returns(Nil, InvalidPath(path, k))
         ELSE IF ~tmpList.isNil /\ (at.i < 0 \/ at.i >= Len(tmpList.l)) THEN Panics
         ELSE
           LET val == IF tmpList.isNil THEN keyed ELSE ListIndex(tmpList.l, at.i)
           IN CASE TypeSwitch(val) = "string" -> Returns(val, NoErr)
                [] TypeSwitch(val) = "map" -> PathLoop(val.v, NilList, path, k + 1)
                [] TypeSwitch(val) = "list" ->
                       PathLoop(current, [isNil |-> FALSE, l |-> val.v], path, k + 1)
                [] OTHER -> Returns(Nil, UnexpectedType(val, path, k))

\* func (g GenericMap) Path(path []string) (interface{}, error)
Path(g, path) == PathLoop(g, NilList, path, 1)

(***************************************************************************)
(* Path called alone, on every document and path of the bounds.            *)
(***************************************************************************)
Segments == {A, B, TAG, <<"0">>, <<"1">>, <<"-", "1">>}

SeqsUpTo(S, n) == UNION {[1..k -> S] : k \in 0..n}

Paths == SeqsUpTo(Segments, MaxPathLen)

TagMaps == {<<>>} \cup {TAG :> x : x \in {Str("x"), Str("y"), Num(5)}}

ListElems == {Str("x"), Num(5), Map(TAG :> Str("x")), Map(TAG :> Str("y")),
              List(<<Str("y")>>)}

Lists == SeqsUpTo(ListElems, MaxListLen)

\* What the key "a" of a document holds.
Values ==
    {Str("x"), Str(""), Num(5), Nil}
    \cup {Map(m) : m \in TagMaps} \cup {List(l) : l \in Lists}

\* The documents: the key "a" absent or holding a value, and possibly a key
\* "1", which reads like a list index.
Docs ==
    LET withA == {<<>>} \cup {A :> x : x \in Values}
    IN withA \cup {d @@ (<<"1">> :> Str("z")) : d \in withA}

PathInit ==
    /\ args \in {[g |-> d, path |-> q] : d \in Docs, q \in Paths}
    /\ ret = NoRet
    /\ pc = "entry"
    /\ release = "" /\ env = <<>> /\ tmpDirs = {} /\ archiveDir = {}
    /\ scratch = {}
    /\ r = NoInfo /\ pending = {} /\ calls = EmptyBag /\ success = EmptyBag
    /\ errors = EmptyBag /\ commands = EmptyBag /\ report = <<>>

\* A call of Path: it returns a value and an error, or panics.
CallPath ==
    /\ pc = "entry"
    /\ ret' = Path(args.g, args.path)
    /\ pc' = IF Path(args.g, args.path).panic THEN "panicked" ELSE "returned"
    /\ UNCHANGED <<release, env, scratch, tmpDirs, archiveDir, r, pending,
                   calls, success, errors, commands, report, args>>

PathNext == CallPath

PathSpec == PathInit /\ [][PathNext]_vars


(***************************************************************************)
(* Properties of Path.                                                     *)
(***************************************************************************)
PathReturned == pc = "returned" /\ ret # NoRet

\* The first segment is a key the document does not hold.
MissingAtRoot ==
    /\ Len(args.path) >= 1
    /\ args.path[1] \notin DOMAIN args.g

\* The first segment resolves to a mapping that does not hold the second.
MissingBelowRoot ==
    /\ Len(args.path) >= 2
    /\ args.path[1] \in DOMAIN args.g
    /\ args.g[args.path[1]].t = "map"
    /\ args.path[2] \notin DOMAIN args.g[args.path[1]].v

\* C6 as stated: a segment looked up as a key that the current mapping does
\* not hold makes Path return the empty result and no error.
C6_MissingKeyIsEmpty ==
    (pc # "entry" /\ (MissingAtRoot \/ MissingBelowRoot)) =>
        /\ ret.val = Nil /\ ~ret.panic
        /\ ret.err = NoErr

\* C6 amended: such a segment makes Path return no value and the
\* unexpected-type error for the nil it looked up, naming that segment.
C6_MissingKeyIsUnexpectedType ==
    /\ (pc # "entry" /\ MissingAtRoot) =>
           /\ ret.val = Nil /\ ~ret.panic
           /\ ret.err = [type |-> "UnexpectedType", got |-> "nil",
                         seg |-> args.path[1], path |-> args.path]
    /\ (pc # "entry" /\ MissingBelowRoot) =>
           /\ ret.val = Nil /\ ~ret.panic
           /\ ret.err = [type |-> "UnexpectedType", got |-> "nil",
                         seg |-> args.path[2], path |-> args.path]

\* Path has returned for the document {"a":{}} and the path ["a","b"].
C6_Witness ==
    /\ PathReturned
    /\ args.g = (A :> Map(<<>>))
    /\ args.path = <<A, B>>
    /\ ret.val = Nil
    /\ ret.err.type = "UnexpectedType"
    /\ ret.err.seg = B

\* C7 as stated: for {"a": 5} and ["a","b"] the unexpected-type error names
\* the segment "b".
C7_NumberErrorNamesNextSegment ==
    (pc # "entry" /\ args.g = (A :> Num(5)) /\ args.path = <<A, B>>) =>
        /\ ret.val = Nil
        /\ ret.err.type = "UnexpectedType"
        /\ ret.err.seg = B

\* C7 amended: a number met during resolution makes Path return no value
\* and an unexpected-type error that names the segment whose lookup yielded
\* the number, whatever follows it: "a" for {"a": 5} and ["a","b"].
C7_NumberErrorNamesItsSegment ==
    /\ (pc # "entry" /\ Len(args.path) >= 1 /\ args.path[1] \in DOMAIN args.g
           /\ args.g[args.path[1]].t = "float64") =>
          /\ ret.val = Nil /\ ~ret.panic
          /\ ret.err = [type |-> "UnexpectedType", got |-> "float64",
                        seg |-> args.path[1], path |-> args.path]
    /\ (pc # "entry" /\ Len(args.path) >= 2 /\ args.path[1] \in DOMAIN args.g
           /\ args.g[args.path[1]].t = "map"
           /\ args.path[2] \in DOMAIN args.g[args.path[1]].v
           /\ args.g[args.path[1]].v[args.path[2]].t = "float64") =>
          /\ ret.val = Nil /\ ~ret.panic
          /\ ret.err = [type |-> "UnexpectedType", got |-> "float64",
                        seg |-> args.path[2], path |-> args.path]

\* Path has returned for the document {"a": 5} and the path ["a","b"].
C7_Witness ==
    /\ PathReturned
    /\ args.g = (A :> Num(5))
    /\ args.path = <<A, B>>
    /\ ret.err.type = "UnexpectedType"
    /\ ret.err.seg = A

\* The first segment resolves to a list and the second is an index into it.
IndexesList ==
    /\ Len(args.path) >= 2
    /\ args.path[1] \in DOMAIN args.g
    /\ args.g[args.path[1]].t = "list"
    /\ Atoi(args.path[2]).ok
    /\ Atoi(args.path[2]).i >= 0
    /\ Atoi(args.path[2]).i < Len(args.g[args.path[1]].v)

\* The element of that list at the zero-based index i.
ElementAt(i) == args.g[args.path[1]].v[i + 1]

\* C8: when the first segment resolves to a list of length n and the second
\* is an integer i with 0 <= i < n, Path goes on from element i: a string
\* element is the result, and through a mapping element the result is what
\* the remaining path resolves to in that mapping (the same value, or an
\* error of the same type on the same segment); a list element is indexed
\* by the segment after, a number element is an unexpected-type error on
\* the index segment; the key of the root that reads like the index is not
\* looked at.
C8_ListSegmentIsIndex ==
    (pc # "entry" /\ IndexesList) =>
        LET i == Atoi(args.path[2]).i
            elem == ElementAt(i)
            rest == SubSeq(args.path, 3, Len(args.path))
            inner == Path(elem.v, rest)
        IN /\ elem.t = "string" => ret = Returns(elem, NoErr)
           /\ elem.t = "map" =>
                /\ ret.val = inner.val
                /\ ret.panic = inner.panic
                /\ ret.err.type = inner.err.type
                /\ inner.err # NoErr => ret.err.seg = inner.err.seg
           /\ elem.t = "list" =>
                LET nested == Path(A :> elem, <<A>> \o rest)
                IN /\ ret.val = nested.val
                   /\ ret.panic = nested.panic
                   /\ ret.err.type = nested.err.type
                   /\ (nested.err # NoErr /\ rest # <<>>) =>
                         ret.err.seg = nested.err.seg
           /\ elem.t = "float64" =>
                /\ ret.val = Nil /\ ~ret.panic
                /\ ret.err.type = "UnexpectedType"
                /\ ret.err.seg = args.path[2]

\* Path has returned "y" for {"a":[{"tag":"x"},{"tag":"y"}]} and
\* ["a","1","tag"].
C8_Witness ==
    /\ PathReturned
    /\ args.g = (A :> List(<<Map(TAG :> Str("x")), Map(TAG :> Str("y"))>>))
    /\ args.path = <<A, <<"1">>, TAG>>
    /\ ret = Returns(Str("y"), NoErr)


\* The segments that read as a list index, with the index.
SegmentIndex == (<<"0">> :> 0) @@ (<<"1">> :> 1)

\* No value: the walk has left the document.
Off == [t |-> "off", v |-> <<>>]

\* The value of the document met after walking the segments segs down from
\* the value v: a key of a mapping (nil when absent), a zero-based index of
\* a list; nothing lies below another value or off a list.
RECURSIVE ValueMet(_, _)
ValueMet(v, segs) ==
    IF segs = <<>> THEN v
    ELSE LET p == Head(segs)
         IN CASE v.t = "map" ->
                    ValueMet(IF p \in DOMAIN v.v THEN v.v[p] ELSE Nil, Tail(segs))
              [] v.t = "list" ->
                    IF p \in DOMAIN SegmentIndex /\ SegmentIndex[p] < Len(v.v)
                    THEN ValueMet(v.v[SegmentIndex[p] + 1], Tail(segs))
                    ELSE Off
              [] OTHER -> Off

\* The value met after the first k segments of the path of the call.
Met(k) == ValueMet(Map(args.g), SubSeq(args.path, 1, k))

\* C13: when Path returns without error, the result is the first string
\* met on the walk, whatever segments remain after it (only mappings and
\* lists were met before it), or it is the empty result and the whole path
\* was walked through mappings and lists without meeting a string.
C13_FirstStringOrEmpty ==
    (PathReturned /\ ret.err = NoErr) =>
        \/ \E k \in 1..Len(args.path) :
              /\ Met(k).t = "string"
              /\ ret.val = Met(k)
              /\ \A j \in 0..(k - 1) : Met(j).t \in {"map", "list"}
        \/ /\ ret.val = Nil
           /\ \A j \in 0..Len(args.path) : Met(j).t \in {"map", "list"}

\* Path has returned the string of the first segment of a longer path.
C13_Witness ==
    /\ PathReturned
    /\ ret.err = NoErr
    /\ Len(args.path) = 3
    /\ Met(1) = Str("x")
    /\ ret.val = Str("x")

\* The second segment follows a list and is no usable index of it.
UnusableIndex ==
    /\ Len(args.path) >= 2
    /\ args.path[1] \in DOMAIN args.g
    /\ args.g[args.path[1]].t = "list"
    /\ \/ args.path[2] \notin DOMAIN SegmentIndex
       \/ SegmentIndex[args.path[2]] >= Len(args.g[args.path[1]].v)

\* C14 as stated: every call of Path ends by returning a result or an
\* error, it never aborts; a segment that follows a list and is no usable
\* index of it (no integer, negative, or not below the length of the list)
\* ends the call with an invalid-path error.
C14_PathIsTotal ==
    pc # "entry" =>
        /\ ~ret.panic
        /\ UnusableIndex =>
              /\ ret.err.type = "InvalidPath"
              /\ ret.err.seg = args.path[2]


(***************************************************************************)
(* getValues and validateHubTag.                                           *)
(***************************************************************************)
GLOBAL == <<"g", "l", "o", "b", "a", "l">>
INTERNAL_DEFAULTS ==
    <<"_", "i", "n", "t", "e", "r", "n", "a", "l", "_", "d", "e",
      "f", "a", "u", "l", "t", "s", "_", "d", "o", "_", "n", "o",
      "t", "_", "s", "e", "t">>
DOT == "."

\* strings.Split(s, sep) for a one-character separator: the pieces between
\* the separators; a string without one is the only piece, also when empty.
RECURSIVE Split(_, _)
Split(s, sep) ==
    IF \A i \in 1..Len(s) : s[i] # sep THEN <<s>>
    ELSE LET i == CHOOSE i \in 1..Len(s) :
                      s[i] = sep /\ \A j \in 1..(i - 1) : s[j] # sep
         IN <<SubSeq(s, 1, i - 1)>> \o Split(SubSeq(s, i + 1, Len(s)), sep)

\* The bytes of a values file: YAML that yaml.Unmarshal turns into the
\* mapping `doc`, or bytes it rejects.
ValuesBytes(doc) == [yaml |-> "valid", doc |-> doc]
BadBytes == [yaml |-> "invalid", doc |-> <<>>]

\* getValues
getValues(values) ==
    IF values.yaml = "valid"
    THEN [values |-> values.doc, err |-> NoErr]
    ELSE [values |-> <<>>, err |-> [type |-> "yaml"]]

\* The comparison with a nil interface taken for the empty string.
InterfaceIsStringOrEmpty(val, s) ==
    \/ val.t = "string" /\ val.v = s
    \/ val.t = "nil" /\ s = ""

\* tag == r.manifest.Version, of an interface{} and a string: equal only
\* when the interface holds a string with that content.
InterfaceIsString(val, s) == val.t = "string" /\ val.v = s

ReturnsErr(err) == [err |-> err, panic |-> FALSE]
ReturnsNil == [err |-> NoErr, panic |-> FALSE]
CallPanics == [err |-> NoErr, panic |-> TRUE]

\* append(strings.Split(paths, "."), leaf), replaced by the single leaf for
\* the empty paths.
LeafPath(paths, leaf) ==
    IF paths = <<>> THEN <<leaf>> ELSE Append(Split(paths, DOT), leaf)

\* func validateHubTag(r ReleaseInfo, valuesBytes []byte, paths string) error
validateHubTag(rr, valuesBytes, paths) ==
    LET parsed == getValues(valuesBytes)
        tag == Path(parsed.values, LeafPath(paths, TAG))
        hub == Path(parsed.values, LeafPath(paths, HUB))
    IN IF parsed.err # NoErr THEN ReturnsErr(parsed.err)
       ELSE IF tag.panic THEN CallPanics
       ELSE IF tag.err # NoErr
         THEN ReturnsErr([type |-> "invalid path", cause |-> tag.err])
       ELSE IF ~InterfaceIsString(tag.val, rr.manifest.Version)
         THEN ReturnsErr([type |-> "archive tag incorrect", got |-> tag.val,
                          expected |-> rr.manifest.Version])
       ELSE IF hub.panic THEN CallPanics
       ELSE IF hub.err # NoErr
         THEN ReturnsErr([type |-> "invalid path", cause |-> hub.err])
       ELSE IF ~InterfaceIsString(hub.val, rr.manifest.Docker)
         THEN ReturnsErr([type |-> "hub incorrect", got |-> hub.val,
                          expected |-> rr.manifest.Docker])
       ELSE ReturnsNil

(***************************************************************************)
(* validateHubTag called alone.                                            *)
(***************************************************************************)
Opt(key, vals) == {<<>>} \cup {key :> x : x \in vals}

\* Mappings with an optional tag and an optional hub.
HubTagMaps ==
    {t @@ h : t \in Opt(TAG, {Str("1.2.3"), Str(""), Str("9.9.9"), Map(<<>>)}),
              h \in Opt(HUB, {Str("docker.io/istio"), Str(""), Map(<<>>)})}

GoodHubTag == (TAG :> Str("1.2.3")) @@ (HUB :> Str("docker.io/istio"))

\* What the key "global" holds.
GlobalValues ==
    {Map(m) : m \in HubTagMaps}
    \cup {Str("1.2.3"), List(<<>>), List(<<Map(GoodHubTag)>>),
          List(<<Map(TAG :> Str("1.2.3"))>>)}

HubTagDocs == {m @@ g : m \in HubTagMaps, g \in Opt(GLOBAL, GlobalValues)}

\* The prefixes, each with the segments it stands for.
Prefixes ==
    {[paths |-> <<>>, segs |-> <<>>],
     [paths |-> GLOBAL, segs |-> <<GLOBAL>>],
     [paths |-> GLOBAL \o <<".", "0">>, segs |-> <<GLOBAL, <<"0">>>>],
     [paths |-> <<"a", ".", "b">>, segs |-> <<A, B>>]}

Manifests == {Manifest(v, d) : v \in {"1.2.3", ""}, d \in {"docker.io/istio", ""}}

HubTagInit ==
    /\ args \in {[r |-> [NoInfo EXCEPT !.manifest = m, !.release = "rel"],
                  valuesBytes |-> b, paths |-> q.paths] :
                    m \in Manifests,
                    b \in {BadBytes} \cup {ValuesBytes(d) : d \in HubTagDocs},
                    q \in Prefixes}
    /\ ret = NoRet
    /\ pc = "entry"
    /\ release = "" /\ env = <<>> /\ tmpDirs = {} /\ archiveDir = {}
    /\ scratch = {}
    /\ r = NoInfo /\ pending = {} /\ calls = EmptyBag /\ success = EmptyBag
    /\ errors = EmptyBag /\ commands = EmptyBag /\ report = <<>>

CallValidateHubTag ==
    /\ pc = "entry"
    /\ ret' = validateHubTag(args.r, args.valuesBytes, args.paths)
    /\ pc' = IF validateHubTag(args.r, args.valuesBytes, args.paths).panic
             THEN "panicked" ELSE "returned"
    /\ UNCHANGED <<release, env, scratch, tmpDirs, archiveDir, r, pending,
                   calls, success, errors, commands, report, args>>

HubTagNext == CallValidateHubTag

HubTagSpec == HubTagInit /\ [][HubTagNext]_vars

\* The segments the prefix of the call stands for.
PrefixSegments == (CHOOSE q \in Prefixes : q.paths = args.paths).segs

\* The values document resolves the path to the string s.
ResolvesTo(path, s) ==
    /\ args.valuesBytes.yaml = "valid"
    /\ LET res == Path(args.valuesBytes.doc, path)
       IN ~res.panic /\ res.err = NoErr /\ res.val = Str(s)

\* The values document resolves the path to nothing, without an error.
ResolvesToNothing(path) ==
    /\ args.valuesBytes.yaml = "valid"
    /\ LET res == Path(args.valuesBytes.doc, path)
       IN ~res.panic /\ res.err = NoErr /\ res.val = Nil

\* C9: validateHubTag returns nil exactly when the document resolves
\* <prefix segments>,"tag" to the manifest version and <prefix
\* segments>,"hub" to the manifest docker hub, the empty prefix standing for
\* no segment; a tag or hub that resolves to nothing makes it return an
\* incorrect-value error, also when the manifest value is "".
C9_HubTagSuccessIffBothMatch ==
    pc # "entry" =>
        LET tagPath == Append(PrefixSegments, TAG)
            hubPath == Append(PrefixSegments, HUB)
        IN /\ ret = ReturnsNil <=>
                  /\ ResolvesTo(tagPath, args.r.manifest.Version)
                  /\ ResolvesTo(hubPath, args.r.manifest.Docker)
           /\ ResolvesToNothing(tagPath) =>
                  ~ret.panic /\ ret.err.type = "archive tag incorrect"
           /\ (ResolvesTo(tagPath, args.r.manifest.Version)
                 /\ ResolvesToNothing(hubPath)) =>
                  ~ret.panic /\ ret.err.type = "hub incorrect"

\* validateHubTag has failed a document whose tag resolves to nothing
\* against a manifest whose version is the empty string.
C9_Witness ==
    /\ pc = "returned"
    /\ args.r.manifest.Version = ""
    /\ ResolvesToNothing(Append(PrefixSegments, TAG))
    /\ ret.err.type = "archive tag incorrect"


(***************************************************************************)
(* TestHelmChartVersions, called alone.                                    *)
(***************************************************************************)
NONE == <<"n", "o", "n", "e">>

\* expected := map[string]string{...}: chart name -> values sub-path.
Expected ==
    ("cni" :> INTERNAL_DEFAULTS \o <<DOT>> \o GLOBAL)
    @@ ("ztunnel" :> INTERNAL_DEFAULTS)
    @@ ("istiod" :> INTERNAL_DEFAULTS \o <<DOT>> \o GLOBAL)
    @@ ("base" :> NONE)
    @@ ("gateway" :> NONE)

Charts == DOMAIN Expected

\* The versions util.IsValidSemver accepts, among those of the model.
SemverVersions == {"1.2.3"}

\* util.IsValidSemver
IsValidSemver(version) == version \in SemverVersions

HelmShow(chart) == <<"helm", "show", "values", chart>>

\* What `helm show values <chart>.tgz` does: it fails, or prints a values
\* document.
HelmFails == [ok |-> FALSE, stdout |-> BadBytes]
HelmPrints(doc) == [ok |-> TRUE, stdout |-> ValuesBytes(doc)]

\* The values of a chart with its hub and tag below the chart's sub-path.
ChartValues(chart, hubTag) ==
    IF chart = "ztunnel" THEN INTERNAL_DEFAULTS :> Map(hubTag)
    ELSE INTERNAL_DEFAULTS :> Map(GLOBAL :> Map(hubTag))

HelmOutputs(chart) ==
    IF Expected[chart] = NONE THEN {HelmFails, HelmPrints(<<>>)}
    ELSE {HelmFails,
          HelmPrints(ChartValues(chart, GoodHubTag)),
          HelmPrints(ChartValues(chart, (TAG :> Str("9.9.9")) @@ (HUB :> Str("docker.io/istio"))))}

HelmEnvs ==
    {[helm |-> h] : h \in {h \in [Charts -> UNION {HelmOutputs(c) : c \in Charts}] :
                            \A c \in Charts : h[c] \in HelmOutputs(c)}}

HelmInit ==
    /\ args \in {[r |-> [NoInfo EXCEPT !.manifest = Manifest(v, "docker.io/istio"),
                                       !.release = "rel"]] :
                    v \in {"1.2.3", "dev-build"}}
    /\ env \in HelmEnvs
    /\ ret = NoRet
    /\ pc = "entry"
    /\ pending = {}
    /\ calls = EmptyBag
    /\ commands = EmptyBag
    /\ release = "" /\ tmpDirs = {} /\ archiveDir = {}
    /\ scratch = {} /\ r = NoInfo
    /\ success = EmptyBag /\ errors = EmptyBag /\ report = <<>>

\* if !util.IsValidSemver(r.manifest.Version) { return nil }
HelmSkip ==
    /\ pc = "entry"
    /\ ~IsValidSemver(args.r.manifest.Version)
    /\ ret' = ReturnsNil
    /\ pc' = "returned"
    /\ UNCHANGED <<release, env, scratch, tmpDirs, archiveDir, r, pending,
                   calls, success, errors, commands, report, args>>

\* The guard that lets every version through to the loop.
HelmEnterAlways ==
    /\ pc = "entry"
    /\ pending' = Charts
    /\ pc' = "loop"
    /\ UNCHANGED <<release, env, scratch, tmpDirs, archiveDir, r, calls,
                   success, errors, commands, report, args, ret>>

\* The version is a semver: the range over `expected` starts.
HelmEnter ==
    /\ pc = "entry"
    /\ IsValidSemver(args.r.manifest.Version)
    /\ pending' = Charts
    /\ pc' = "loop"
    /\ UNCHANGED <<release, env, scratch, tmpDirs, archiveDir, r, calls,
                   success, errors, commands, report, args, ret>>

\* One iteration of `for chart, path := range expected`, in any order: helm
\* is run; its failure, or a failing validateHubTag, is returned at once.
HelmChart(chart) ==
    /\ pc = "loop"
    /\ chart \in pending
    /\ pending' = pending \ {chart}
    /\ commands' = commands (+) SetToBag({HelmShow(chart)})
    /\ LET c == env.helm[chart]
           v == validateHubTag(args.r, c.stdout, Expected[chart])
       IN IF ~c.ok
          THEN /\ ret' = ReturnsErr([type |-> "helm show", chart |-> chart])
               /\ pc' = "returned"
               /\ UNCHANGED calls
          ELSE IF Expected[chart] = NONE
          THEN UNCHANGED <<ret, pc, calls>>
          ELSE /\ calls' = calls (+) SetToBag({chart})
               /\ IF v.panic THEN pc' = "panicked" /\ UNCHANGED ret
                  ELSE IF v.err # NoErr
                  THEN /\ ret' = ReturnsErr([type |-> "chart", chart |-> chart,
                                             cause |-> v.err])
                       /\ pc' = "returned"
                  ELSE UNCHANGED <<ret, pc>>
    /\ UNCHANGED <<release, env, scratch, tmpDirs, archiveDir, r, success,
                   errors, report, args>>

\* The range is over: return nil.
HelmDone ==
    /\ pc = "loop"
    /\ pending = {}
    /\ ret' = ReturnsNil
    /\ pc' = "returned"
    /\ UNCHANGED <<release, env, scratch, tmpDirs, archiveDir, r, pending,
                   calls, success, errors, commands, report, args>>

HelmNext ==
    \/ HelmSkip
    \/ HelmEnter
    \/ \E chart \in Charts : HelmChart(chart)
    \/ HelmDone

HelmSpec == HelmInit /\ [][HelmNext]_vars

\* The charts whose sub-path is not "none".
ComparedCharts == {"cni", "ztunnel", "istiod"}

\* C10 as stated: for a version that is no semver the check returns success
\* with no chart inspected and nothing compared; for a semver every chart of
\* the table is inspected and every chart with a sub-path is compared.
C10_EveryChartInspected ==
    pc = "returned" =>
        IF args.r.manifest.Version = "dev-build"
        THEN ret = ReturnsNil /\ commands = EmptyBag /\ calls = EmptyBag
        ELSE /\ \A c \in Charts : CopiesIn(HelmShow(c), commands) = 1
             /\ \A c \in ComparedCharts : CopiesIn(c, calls) = 1

\* C10 amended: for a version that is no semver the check returns success
\* with no chart inspected and nothing compared. For a semver the charts are
\* inspected one by one until the first failure: the check returns success
\* only after every chart of the table was inspected once and every chart
\* with a sub-path compared once, and a failing chart tool or comparison
\* ends it with the charts not yet visited left uninspected; a chart
\* without sub-path is never compared.
C10_ChartsInspectedUntilFirstFailure ==
    pc = "returned" =>
        IF args.r.manifest.Version = "dev-build"
        THEN ret = ReturnsNil /\ commands = EmptyBag /\ calls = EmptyBag
        ELSE /\ ret = ReturnsNil =>
                  /\ \A c \in Charts : CopiesIn(HelmShow(c), commands) = 1
                  /\ \A c \in ComparedCharts : CopiesIn(c, calls) = 1
             /\ ret # ReturnsNil =>
                  /\ ret.err.chart \notin pending
                  /\ \A c \in Charts :
                        CopiesIn(HelmShow(c), commands) = IF c \in pending THEN 0 ELSE 1
                  /\ \A c \in (Charts \ pending) \ {ret.err.chart} :
                        env.helm[c].ok
             /\ \A c \in Charts \ ComparedCharts : CopiesIn(c, calls) = 0
             /\ \A c \in ComparedCharts : CopiesIn(c, calls) <= 1

\* The check was skipped for "dev-build" although the chart tool would have
\* failed.
C10_Witness ==
    /\ pc = "returned"
    /\ args.r.manifest.Version = "dev-build"
    /\ \E c \in Charts : ~env.helm[c].ok
    /\ ret = ReturnsNil
    /\ commands = EmptyBag


(***************************************************************************)
(* TestDocker, called alone.                                               *)
(***************************************************************************)
\* Bounds: the architectures of a manifest, and the expected images that a
\* docker directory lacks.
MaxArchs == 2
MaxMissing == 1

\* expected := []string{...}
ExpectedImages ==
    <<<<"p", "i", "l", "o", "t", "-", "d", "i", "s", "t", "r", "o", "l", "e", "s", "s">>,
      <<"p", "i", "l", "o", "t", "-", "d", "e", "b", "u", "g">>,
      <<"i", "n", "s", "t", "a", "l", "l", "-", "c", "n", "i", "-", "d", "e", "b", "u", "g">>,
      <<"z", "t", "u", "n", "n", "e", "l", "-", "d", "e", "b", "u", "g">>,
      <<"z", "t", "u", "n", "n", "e", "l", "-", "d", "i", "s", "t", "r", "o", "l", "e", "s", "s">>,
      <<"p", "r", "o", "x", "y", "v", "2", "-", "d", "e", "b", "u", "g">>,
      <<"p", "r", "o", "x", "y", "v", "2", "-", "d", "i", "s", "t", "r", "o", "l", "e", "s", "s">>>>

AMD64 == <<"a", "m", "d", "6", "4">>
ARM64 == <<"a", "r", "m", "6", "4">>
TARGZ == <<".", "t", "a", "r", ".", "g", "z">>
SLASH == "/"

\* strings.Cut(s, sep) for a one-character separator.
Cut(s, sep) ==
    IF \A i \in 1..Len(s) : s[i] # sep
    THEN [before |-> s, after |-> <<>>, found |-> FALSE]
    ELSE LET i == CHOOSE i \in 1..Len(s) :
                      s[i] = sep /\ \A j \in 1..(i - 1) : s[j] # sep
         IN [before |-> SubSeq(s, 1, i - 1), after |-> SubSeq(s, i + 1, Len(s)),
             found |-> TRUE]

\* The suffix without the exception for the default architecture.
ArchSuffixAlways(arch) == <<"-">> \o arch

\* suffix := ""; if arch != "amd64" { suffix = "-" + arch }
ArchSuffix(arch) == IF arch # AMD64 THEN <<"-">> \o arch ELSE <<>>

\* image := i + suffix + ".tar.gz", for the platform string plat.
ImageOf(i, plat) == i \o ArchSuffix(Cut(plat, SLASH).after) \o TARGZ

\* A directory as os.ReadDir meets it: it cannot be read, or it lists the
\* names of its entries.
Dir(readable, names) == [readable |-> readable, names |-> names]

\* func TestDocker(r ReleaseInfo) error, on the directory <release>/docker.
\* The two loops return at the first image that is not found.
TestDocker(rr, dir) ==
    LET archs == rr.manifest.Architectures
        absent == {q \in (1..Len(archs)) \X (1..Len(ExpectedImages)) :
                      ImageOf(ExpectedImages[q[2]], archs[q[1]]) \notin dir.names}
        first == CHOOSE q \in absent :
                     \A o \in absent : q[1] < o[1] \/ (q[1] = o[1] /\ q[2] <= o[2])
    IN IF ~dir.readable THEN ReturnsErr([type |-> "failed to read docker dir"])
       ELSE IF absent = {} THEN ReturnsNil
       ELSE ReturnsErr([type |-> "expected docker image",
                        image |-> ImageOf(ExpectedImages[first[2]], archs[first[1]])])

\* The platforms of a manifest, each with its architecture.
Platforms ==
    {[plat |-> <<"l", "i", "n", "u", "x", "/", "a", "m", "d", "6", "4">>, arch |-> AMD64],
     [plat |-> <<"l", "i", "n", "u", "x", "/", "a", "r", "m", "6", "4">>, arch |-> ARM64]}

ArchLists == SeqsUpTo({q.plat : q \in Platforms}, MaxArchs)

\* The tarball of the image b for an architecture.
Tarball(b, arch) ==
    IF arch = AMD64 THEN b \o TARGZ ELSE b \o <<"-">> \o arch \o TARGZ

AllTarballs ==
    {Tarball(ExpectedImages[i], q.arch) : i \in 1..Len(ExpectedImages), q \in Platforms}

README == <<"R", "E", "A", "D", "M", "E">>

\* The docker directories: every tarball but a few, possibly with a file
\* that is no image, readable or not; and the directory that is not there.
DockerDirs ==
    {Dir(FALSE, {})}
    \cup {Dir(rd, (AllTarballs \ M) \cup X) :
            rd \in BOOLEAN,
            M \in {M \in SUBSET AllTarballs : Cardinality(M) <= MaxMissing},
            X \in {{}, {README}}}

DockerInit ==
    /\ args \in {[r |-> [NoInfo EXCEPT
                          !.manifest = [Version |-> "1.2.3", Docker |-> "docker.io/istio",
                                        Architectures |-> a],
                          !.release = "rel"]] : a \in ArchLists}
    /\ env \in {[docker |-> d] : d \in DockerDirs}
    /\ ret = NoRet
    /\ pc = "entry"
    /\ release = "" /\ tmpDirs = {} /\ archiveDir = {}
    /\ scratch = {} /\ r = NoInfo
    /\ pending = {} /\ calls = EmptyBag /\ commands = EmptyBag
    /\ success = EmptyBag /\ errors = EmptyBag /\ report = <<>>

CallTestDocker ==
    /\ pc = "entry"
    /\ ret' = TestDocker(args.r, env.docker)
    /\ pc' = "returned"
    /\ UNCHANGED <<release, env, scratch, tmpDirs, archiveDir, r, pending,
                   calls, success, errors, commands, report, args>>

DockerNext == CallTestDocker

DockerSpec == DockerInit /\ [][DockerNext]_vars

\* The architecture of a platform string of the manifest.
ArchOf(plat) == (CHOOSE q \in Platforms : q.plat = plat).arch

\* The docker directory holds the tarball of every expected image for every
\* architecture the manifest declares.
AllTarballsPresent ==
    \A k \in 1..Len(args.r.manifest.Architectures) :
        \A i \in 1..Len(ExpectedImages) :
            Tarball(ExpectedImages[i], ArchOf(args.r.manifest.Architectures[k]))
                \in env.docker.names

\* C11 as stated: TestDocker succeeds exactly when the docker directory
\* holds b.tar.gz (amd64) or b-<arch>.tar.gz (any other architecture) for
\* every declared architecture and every expected image b.
C11_DockerSuccessIffAllTarballs ==
    pc = "returned" => (ret = ReturnsNil <=> AllTarballsPresent)

\* C11 amended: TestDocker succeeds exactly when the docker directory can
\* be read and holds those tarballs; one absent tarball makes it fail, and
\* so does a directory that cannot be read, whatever it holds and also for
\* a manifest that declares no architecture.
C11_DockerSuccessIffReadableAndAllTarballs ==
    pc = "returned" =>
        /\ ret = ReturnsNil <=> (env.docker.readable /\ AllTarballsPresent)
        /\ (env.docker.readable /\ ~AllTarballsPresent) =>
               /\ ret.err.type = "expected docker image"
               /\ ret.err.image \notin env.docker.names
        /\ ~env.docker.readable => ret.err.type = "failed to read docker dir"

\* TestDocker has failed a manifest with amd64 and arm64 for which only an
\* arm64 tarball is missing.
C11_Witness ==
    /\ pc = "returned"
    /\ Len(args.r.manifest.Architectures) = 2
    /\ ArchOf(args.r.manifest.Architectures[1]) = AMD64
    /\ ArchOf(args.r.manifest.Architectures[2]) = ARM64
    /\ env.docker.readable
    /\ Cardinality(AllTarballs \ env.docker.names) = 1
    /\ ret.err.type = "expected docker image"
    /\ ret.err.image = Tarball(ExpectedImages[1], ARM64)

(***************************************************************************)
(* TestGrafana, called alone.                                              *)
(***************************************************************************)
JSON == <<".", "j", "s", "o", "n">>

\* strings.HasSuffix(s, suffix)
HasSuffix(s, suffix) ==
    /\ Len(s) >= Len(suffix)
    /\ SubSeq(s, Len(s) - Len(suffix) + 1, Len(s)) = suffix

\* A trimming that leaves every name as it is.
TrimSuffixNever(s, suffix) == s

\* strings.TrimSuffix(s, suffix): one trailing suffix is removed.
TrimSuffix(s, suffix) ==
    IF HasSuffix(s, suffix) THEN SubSeq(s, 1, Len(s) - Len(suffix)) ELSE s

\* created[strings.TrimSuffix(db.Name(), ".json")]
Created(names) == {TrimSuffix(n, JSON) : n \in names}

\* for dashboard := range r.manifest.GrafanaDashboards
ManifestDashboards(rr) == DOMAIN rr.manifest.GrafanaDashboards

\* func TestGrafana(r ReleaseInfo) error, on the directory <release>/grafana.
TestGrafana(rr, dir) ==
    IF ~dir.readable THEN ReturnsErr([type |-> "ReadDir"])
    ELSE IF Created(dir.names) # ManifestDashboards(rr)
         THEN ReturnsErr([type |-> "dashboards out of sync",
                          created |-> Created(dir.names),
                          manifest |-> ManifestDashboards(rr)])
    ELSE ReturnsNil

\* The entries a grafana directory may hold, each with its stem.
GrafanaEntries ==
    {[name |-> <<"a", ".", "j", "s", "o", "n">>, stem |-> A],
     [name |-> <<"b", ".", "j", "s", "o", "n">>, stem |-> B],
     [name |-> A, stem |-> A],
     [name |-> <<"b", ".", "t", "x", "t">>, stem |-> <<"b", ".", "t", "x", "t">>],
     [name |-> <<"a", ".", "j", "s", "o", "n", ".", "j", "s", "o", "n">>, stem |-> <<"a", ".", "j", "s", "o", "n">>]}

DashboardNames == {A, B, <<"b", ".", "t", "x", "t">>, <<"a", ".", "j", "s", "o", "n">>}

\* manifest.GrafanaDashboards: dashboard name to dashboard id.
GrafanaDashboards == UNION {[D -> {7639}] : D \in SUBSET DashboardNames}

GrafanaDirs ==
    {Dir(rd, {e.name : e \in E}) : rd \in BOOLEAN, E \in SUBSET GrafanaEntries}

GrafanaInit ==
    /\ args \in {[r |-> [NoInfo EXCEPT
                          !.manifest = [Version |-> "1.2.3", Docker |-> "docker.io/istio",
                                        GrafanaDashboards |-> d],
                          !.release = "rel"]] : d \in GrafanaDashboards}
    /\ env \in {[grafana |-> d] : d \in GrafanaDirs}
    /\ ret = NoRet
    /\ pc = "entry"
    /\ release = "" /\ tmpDirs = {} /\ archiveDir = {}
    /\ scratch = {} /\ r = NoInfo
    /\ pending = {} /\ calls = EmptyBag /\ commands = EmptyBag
    /\ success = EmptyBag /\ errors = EmptyBag /\ report = <<>>

CallTestGrafana ==
    /\ pc = "entry"
    /\ ret' = TestGrafana(args.r, env.grafana)
    /\ pc' = "returned"
    /\ UNCHANGED <<release, env, scratch, tmpDirs, archiveDir, r, pending,
                   calls, success, errors, commands, report, args>>

GrafanaNext == CallTestGrafana

GrafanaSpec == GrafanaInit /\ [][GrafanaNext]_vars

\* The filename stems of the entries of the grafana directory.
Stems == {(CHOOSE e \in GrafanaEntries : e.name = n).stem : n \in env.grafana.names}

\* The dashboard names the manifest declares.
Declared == DOMAIN args.r.manifest.GrafanaDashboards

\* C12 as stated: TestGrafana succeeds exactly when the set of stems of
\* the entries of the grafana directory equals the set of dashboard names
\* of the manifest.
C12_GrafanaSuccessIffSetsEqual ==
    pc = "returned" => (ret = ReturnsNil <=> Stems = Declared)

\* C12 amended: TestGrafana succeeds exactly when the grafana directory can
\* be read and the set of stems of its entries equals the set of dashboard
\* names of the manifest; a name on one side only, either side, makes it
\* fail, and so does a directory that cannot be read.
C12_GrafanaSuccessIffReadableAndSetsEqual ==
    pc = "returned" =>
        /\ ret = ReturnsNil <=> (env.grafana.readable /\ Stems = Declared)
        /\ (env.grafana.readable /\ Stems # Declared) =>
               ret.err.type = "dashboards out of sync"
        /\ ~env.grafana.readable => ret.err.type = "ReadDir"

\* TestGrafana has passed a directory whose .json files are the declared
\* dashboards.
C12_Witness ==
    /\ pc = "returned"
    /\ env.grafana.readable
    /\ \E n \in env.grafana.names : HasSuffix(n, JSON)
    /\ Cardinality(Declared) = 2
    /\ Stems = Declared
    /\ ret = ReturnsNil

====
